---- MODULE Spec2Model ----
(***************************************************************************)
(* Model of the authentication core of ikv-secrets                        *)
(* (src/src/ikv_secrets/auth.py): one call of _browser_login, run by the  *)
(* foreground thread, together with the background thread that runs       *)
(* server.handle_request on the loopback HTTPServer, the browser / other   *)
(* local clients that connect to the loopback port, the vault that         *)
(* answers the token exchange, and the persistent token store and tenant   *)
(* configuration that save_token / save_tenant_config write.               *)
(***************************************************************************)
EXTENDS Integers, Sequences, FiniteSets, TLC

\* ------------------------------------------------------------------ values

\* A key that is not in a dict / a query parameter that is not in the URL.
Absent == "<absent>"

\* An integer field that is not in a JSON body.
NoInt == 0 - 1

\* Bound: how many TCP connections the environment makes to the loopback port
\* during one login attempt.
MaxConn == 2

Tenants == {"acme", "beta"}

VaultUrls == {"https://vault.example.com"}

\* Values of secrets.token_urlsafe(16) (auth.py:192) and of an echoed state.
StateTokens == {"xyz", "zzz"}

\* Raw values of the `code` query parameter ("" is `code=` with a blank value).
RawCodes == {Absent, "", "abc", "def"}

RawStates == {Absent} \cup StateTokens

RawErrors == {Absent, "", "access_denied"}

\* Raw (still URL-encoded) values of error_description.
RawDescriptions == {Absent, "User+cancelled"}

Methods == {"GET", "POST", "BAD"}

Paths == {"/callback", "/other"}

\* An api_key or master_key: None, empty, or a key.
KeyValues == {Absent, "", "key"}

\* int(time.time()) at the moment the token is built (auth.py:251).
Times == {1000}

\* token_data.get("expires_in", 14400) (auth.py:251).
DefaultExpiresIn == 14400

\* The messages of the AuthError exceptions _browser_login raises.
TimedOutMsg == <<"Authentication timed out - please try again">>

AuthFailedMsg(e) == <<"Authentication failed: ", e>>

CannotConnectMsg(url) == <<"Cannot connect to ", url>>

ExchangeFailedMsg(status) == <<"Token exchange failed: ", status>>

\* TokenInfo (keyring_store.py:60-65); NoToken is "no entry for the tenant".
NoToken == [access_token |-> Absent, expires_at |-> NoInt, tenant |-> Absent]

OldToken(t) == [access_token |-> "old", expires_at |-> 2000, tenant |-> t]

\* The inbound HTTP requests a local client can send to the loopback port.
\* The query of a request that is not a GET is never parsed, so it is left out.
Requests ==
    [method : {"GET"}, path : Paths, code : RawCodes, state : RawStates,
     error : RawErrors, error_description : RawDescriptions]
    \cup
    [method : Methods \ {"GET"}, path : Paths, code : {Absent}, state : {Absent},
     error : {Absent}, error_description : {Absent}]

NoRequest ==
    [method |-> Absent, path |-> Absent, code |-> Absent, state |-> Absent,
     error |-> Absent, error_description |-> Absent]

\* The outcome of a POST to the vault: a transport failure (httpx.ConnectError,
\* or one of the httpx timeouts) or a response. json says whether the
\* content-type header starts with application/json; body says whether the
\* body parses as a JSON object; the other fields are the members of that
\* object, Absent or NoInt when the object has no such member.
NoResponse ==
    [kind |-> Absent, status |-> Absent, json |-> FALSE, body |-> Absent,
     error_description |-> Absent, access_token |-> Absent, expires_at |-> NoInt,
     expires_in |-> NoInt, required_tier |-> Absent, current_tier |-> Absent]

TransportFailures ==
    {[NoResponse EXCEPT !.kind = k] : k \in {"connect_error", "transport_timeout"}}

\* What the vault can answer to POST {vault_url}/auth/oauth/token.
VaultResponses ==
    TransportFailures
    \cup
    {[NoResponse EXCEPT !.kind = "http", !.status = s, !.json = j,
                        !.body = "object", !.error_description = d] :
        s \in {"401", "500"}, j \in BOOLEAN, d \in {Absent, "code expired"}}
    \cup
    {[NoResponse EXCEPT !.kind = "http", !.status = s, !.json = j,
                        !.body = "malformed"] :
        s \in {"401", "500"}, j \in BOOLEAN}
    \cup
    {[NoResponse EXCEPT !.kind = "http", !.status = "200", !.json = TRUE,
                        !.body = "object", !.access_token = a,
                        !.expires_at = e, !.expires_in = i] :
        a \in {Absent, "tok123"}, e \in {NoInt, 5000}, i \in {NoInt, 60}}
    \cup
    {[NoResponse EXCEPT !.kind = "http", !.status = "200", !.json = TRUE,
                        !.body = "malformed"]}

\* What the vault can answer to POST {vault_url}/api/v1/auth/service-account.
\* A 403 answer declares the tier the feature requires and the caller's tier.
ServiceAccountResponses ==
    TransportFailures
    \cup
    {[NoResponse EXCEPT !.kind = "http", !.status = s, !.json = TRUE,
                        !.body = "object"] : s \in {"401", "500"}}
    \cup
    {[NoResponse EXCEPT !.kind = "http", !.status = "403", !.json = TRUE,
                        !.body = "object", !.required_tier = "enterprise",
                        !.current_tier = c] : c \in {"free", "pro"}}
    \cup
    {[NoResponse EXCEPT !.kind = "http", !.status = "200", !.json = TRUE,
                        !.body = "object", !.access_token = a, !.expires_at = e] :
        a \in {Absent, "tok123"}, e \in {NoInt, 5000}}
    \cup
    {[NoResponse EXCEPT !.kind = "http", !.status = "200", !.json = TRUE,
                        !.body = "malformed"]}

NoHttp == [status |-> Absent, body |-> Absent]

\* ------------------------------------------------------------------- state

VARIABLES
    tenant,            \* argument of login
    vault_url,         \* the vault URL login resolved
    flow,              \* the flow login dispatched to (auth.py:84-88)
    vault_response,    \* the outcome of the flow's POST to the vault
    pc,                \* position of the foreground thread in _browser_login
    thr,               \* position of server_thread (server.handle_request)
    callback_received, \* threading.Event
    auth_result,       \* the dict shared by the handler and the foreground
    state,             \* the CSRF state generated for this flow
    sockClosed,        \* server.server_close() has closed server.socket
    portListening,     \* the kernel still completes connections to the port
    backlog,           \* connections completed by the kernel, not yet accepted
    connsSent,         \* connections made by the environment so far
    req,               \* the request the handler has read
    served,            \* number of requests read and answered by the handler
    response,          \* what the handler has written to the connection
    setCount,          \* number of calls of callback_received.set()
    waitResult,        \* how callback_received.wait(timeout=300) returned
    exchangedCode,     \* the code posted to /auth/oauth/token
    token_data,        \* the vault's answer to the exchange
    token,             \* the TokenInfo built from token_data
    exc,               \* type of the exception _browser_login raised
    errorMsg,          \* message of that exception
    tokens,            \* the token store: tenant -> TokenInfo
    config,            \* the tenant configuration: tenant -> vault URL
    tokens0,           \* the token store when the login started
    config0            \* the tenant configuration when the login started

\* The token store in detail (keyring_store.py): the two backends, and the
\* position of the process that is inside save_token, delete_token or logout.
\* The map tokens above is this store as get_token shows it to a login.
VARIABLES
    keyring_state,     \* the keyring of this machine: working, failing, not_installed
    umask,             \* the file mode creation mask of the process
    keyring_passwords, \* the keyring's entries of KEYRING_SERVICE: tenant -> JSON
    tokens_file,       \* TOKENS_FILE: missing, partly written, or a JSON dict
    file_mode,         \* permission bits of TOKENS_FILE
    dir_mode,          \* permission bits of CONFIG_DIR
    op,                \* the call in progress and its position
    lo,                \* the loop of logout(None)
    last,              \* how the last finished call ended
    got,               \* the last call of get_token and what it returned
    saved,             \* per tenant, the token of the last save_token that returned,
                       \* while no later save_token or delete_token of the tenant began
    writers            \* two processes inside save_token at once: per process its
                       \* position, its tenant and token, and the dict it loaded

\* The clock, and what the commands and the API client read off a stored
\* token (keyring_store.py:67-75, cli.py:41-45, client.py:88-144).
VARIABLES
    clock,             \* time.time(), counted in half seconds
    probe,             \* the token a command read and the two properties it showed
    api_call           \* a call of IKVClient.get_env: its position, the headers
                       \* it built, the request it sent, the exception it raised

\* The tenant configuration in detail (config.py). The map config above is
\* the URL of each tenant as a login reads and writes it.
VARIABLES
    config_file,       \* ~/.ikv/config.yaml: missing, or written with its tenants
    cfg_call           \* the last call of save_tenant_config and the file before it

\* An EnvProxy and the process environment it reads (env.py).
VARIABLES
    proxy,             \* _client, _cache, _loaded and _record_id of the EnvProxy
    environ,           \* os.environ: IKV_RECORD, and whether IKV_VAULT_URL and
                       \* IKV_TENANT are set
    lookup             \* the last call on the proxy, the proxy before it, the outcome

\* The arguments of login that decide the URL and the flow (auth.py:45-51);
\* api_key and master_key are also what an IKVClient is built with.
VARIABLES
    url_arg,           \* the vault_url argument: None, empty, or a URL
    api_key,           \* None, empty, or a key
    master_key         \* None, empty, or a key

args == <<tenant, vault_url, flow, url_arg, api_key, master_key>>

clockVars == <<clock, probe, api_call>>

cfgVars == <<config_file, cfg_call>>

envVars == <<proxy, environ, lookup>>

auxVars == <<clockVars, cfgVars, envVars>>

backendVars == <<keyring_state, umask, keyring_passwords, tokens_file, file_mode, dir_mode>>

callVars == <<op, lo, last, got, saved, writers>>

fsVars == <<backendVars, callVars>>

mainVars == <<pc, state, waitResult, exchangedCode, token_data, token, exc, errorMsg>>

listenerVars == <<thr, callback_received, auth_result, req, served, response, setCount>>

socketVars == <<sockClosed, portListening, backlog, connsSent>>

storeVars == <<tokens, config, tokens0, config0>>

vars == <<args, mainVars, listenerVars, socketVars, storeVars, vault_response, fsVars,
          auxVars>>

\* auth_result: dict = {} (auth.py:106)
EmptyAuthResult == [code |-> Absent, state |-> Absent, error |-> Absent]

\* No call of the token store is in progress and none has finished. readable
\* tells that the call found a store it could read; before holds the entries
\* of the other tenants as the call read them.
NoOp == [name |-> "idle", tenant |-> Absent, step |-> "none",
         pending |-> [t \in Tenants |-> NoToken], tok |-> NoToken,
         readable |-> FALSE]

NoLogout == [active |-> FALSE, order |-> <<>>, todo |-> <<>>, before |-> {},
             attempted |-> {}, failed |-> {}]

NoCall == [name |-> "none", tenant |-> Absent, raised |-> FALSE, failed |-> FALSE,
           readable |-> FALSE, before |-> [t \in Tenants |-> NoToken]]

NoGet == [tenant |-> Absent, fault |-> FALSE, entry |-> NoToken, raised |-> "none",
          value |-> NoToken]

\* The processes that save at the same time.
Procs == {"p1", "p2"}

\* No process is inside a concurrent save_token.
NoWriters == [p \in Procs |-> [pc |-> "none", tenant |-> Absent, tok |-> NoToken,
                               pending |-> [t \in Tenants |-> NoToken]]]

CallsQuiet ==
    /\ writers = NoWriters
    /\ op = NoOp
    /\ lo = NoLogout
    /\ last = NoCall
    /\ got = NoGet
    /\ saved = [t \in Tenants |-> NoToken]

\* The detailed store is not exercised by a login: see tokens. last, got and
\* lo describe the call that ended last and are reset when the next begins.
FsQuiet ==
    /\ keyring_state = "working"
    /\ umask = "022"
    /\ keyring_passwords = [t \in Tenants |-> NoToken]
    /\ tokens_file = [st |-> "missing", data |-> [t \in Tenants |-> NoToken]]
    /\ file_mode = "none"
    /\ dir_mode = "none"
    /\ CallsQuiet

\* No command has read a token.
NoProbe == [tenant |-> Absent, expires_at |-> NoInt, is_expired |-> FALSE,
            expires_in |-> NoInt]

\* A tenant without an entry in config.yaml.
NoEntry == [url |-> Absent, default_record |-> Absent]

\* get_config when config.yaml does not exist: {"tenants": {}} (config.py:35-36).
NoConfigFile == [st |-> "missing", mode |-> "none", tenants |-> [t \in Tenants |-> NoEntry]]

NoCfgCall == [tenant |-> Absent, url |-> Absent, default_record |-> Absent,
              before |-> NoConfigFile, raised |-> FALSE, repeated |-> FALSE]

NoHeaders == [kind |-> "none", access_token |-> Absent]

\* No call of the API client has begun.
NoApiCall == [pc |-> "idle", fault |-> FALSE, headers |-> NoHeaders, sent |-> NoHeaders,
              status |-> Absent, raised |-> "none"]

\* The clock stands at the moment Times names and no command has run.
ClockQuiet ==
    /\ clock = 2000
    /\ probe = NoProbe
    /\ api_call = NoApiCall

\* config.yaml is not looked at in detail.
ConfigQuiet ==
    /\ config_file = NoConfigFile
    /\ cfg_call = NoCfgCall

\* The names of the variables a record may hold: a plain one, one that begins
\* with an underscore, and one that is also the name of a method of EnvProxy.
Keys == {"DATABASE_URL", "_TOKEN", "get"}

\* self._cache = {} (env.py:33)
EmptyCache == [k \in Keys |-> Absent]

\* env.py:31-35: the proxy as __init__ leaves it.
FreshProxy == [client |-> Absent, cache |-> EmptyCache, loaded |-> FALSE,
               record_id |-> Absent]

NoLookup == [op |-> "none", key |-> Absent, default |-> Absent, before |-> FreshProxy,
             raised |-> "none", named |-> Absent, value |-> Absent, found |-> FALSE]

\* No EnvProxy is looked at.
EnvQuiet ==
    /\ proxy = FreshProxy
    /\ environ = [IKV_RECORD |-> Absent, configured |-> FALSE]
    /\ lookup = NoLookup

\* Nothing outside the login and the token store has run.
AuxQuiet == ClockQuiet /\ ConfigQuiet /\ EnvQuiet

\* No login has started: the listener, the socket and the locals of the flow.
FlowQuiet ==
    /\ vault_response = NoResponse
    /\ thr = "not_started"
    /\ callback_received = FALSE
    /\ auth_result = EmptyAuthResult
    /\ state = Absent
    /\ sockClosed = FALSE
    /\ portListening = FALSE
    /\ backlog = 0
    /\ connsSent = 0
    /\ req = NoRequest
    /\ served = 0
    /\ response = NoHttp
    /\ setCount = 0
    /\ waitResult = "none"
    /\ exchangedCode = Absent
    /\ token_data = NoResponse
    /\ token = NoToken
    /\ exc = "none"
    /\ errorMsg = <<>>

\* The login and the token store are at rest: they are not what is looked at.
LoginQuiet ==
    /\ tenant = "acme"
    /\ vault_url \in VaultUrls
    /\ url_arg = vault_url
    /\ api_key = Absent
    /\ master_key = Absent
    /\ flow = "browser"
    /\ pc = "Idle"
    /\ FlowQuiet
    /\ tokens = [t \in Tenants |-> NoToken]
    /\ config = [t \in Tenants |-> Absent]
    /\ tokens0 = tokens
    /\ config0 = config

\* The state in which login has resolved the vault URL and calls the flow f.
InitFlow(f) ==
    /\ tenant \in Tenants
    /\ vault_url \in VaultUrls
    /\ url_arg = vault_url
    /\ api_key = (IF f = "service_account" THEN "key" ELSE Absent)
    /\ master_key = api_key
    /\ flow = f
    /\ pc = IF f = "browser" THEN "Idle" ELSE "ServiceAccountPost"
    /\ FlowQuiet
    /\ FsQuiet
    /\ AuxQuiet
    /\ tokens \in {[t \in Tenants |-> NoToken], [t \in Tenants |-> OldToken(t)]}
    /\ config \in {[t \in Tenants |-> Absent],
                   [t \in Tenants |-> "https://old.example.com"]}
    /\ tokens0 = tokens
    /\ config0 = config

\* One call of _browser_login.
Init == InitFlow("browser")

\* ------------------------------------------------------------ the listener

\* The decoding parse_qs applies to a value: "+" becomes a space. The other
\* values of the model hold no encoded character.
unquote_plus(raw) == IF raw = "User+cancelled" THEN "User cancelled" ELSE raw

\* urllib.parse.parse_qs(parsed.query) (auth.py:110-111): a parameter with a
\* blank value is dropped (keep_blank_values is False), so it is not a key of
\* params; the other values are decoded.
QueryValue(raw) == IF raw = "" THEN Absent ELSE unquote_plus(raw)

parse_qs(r) ==
    [code |-> QueryValue(r.code), state |-> QueryValue(r.state),
     error |-> QueryValue(r.error),
     error_description |-> QueryValue(r.error_description)]

\* The branch of do_GET a request takes (auth.py:113, 143, 172).
Branch(r) ==
    IF parse_qs(r).code # Absent THEN "code"
    ELSE IF parse_qs(r).error # Absent THEN "error"
    ELSE "unrecognized"

\* params.get("state", [""])[0] (auth.py:116)
EchoedState(r) == IF parse_qs(r).state = Absent THEN "" ELSE parse_qs(r).state

\* ErrorText with the description ignored: params["error"][0].
ErrorText_IgnoresDescription(r) == parse_qs(r).error

\* params.get("error_description", params["error"])[0] (auth.py:145)
ErrorText(r) ==
    IF parse_qs(r).error_description # Absent
    THEN parse_qs(r).error_description
    ELSE parse_qs(r).error

\* A local client connects to the loopback port. The kernel completes the
\* connection whenever the port is listening, whether or not the server thread
\* ever accepts it.
Connect ==
    /\ portListening
    /\ connsSent < MaxConn
    /\ connsSent' = connsSent + 1
    /\ backlog' = backlog + 1
    /\ UNCHANGED <<args, mainVars, listenerVars, storeVars, sockClosed, portListening>>
    /\ UNCHANGED <<vault_response, fsVars, auxVars>>

\* handle_request (auth.py:187): the selector reports the listening socket
\* readable and the server accepts the connection. When server_close() has
\* already closed server.socket, accept() raises OSError, which handle_request
\* swallows: the thread ends and the kernel socket is released.
Accept ==
    /\ thr = "polling"
    /\ backlog > 0
    /\ IF sockClosed
       THEN /\ thr' = "terminated"
            /\ portListening' = FALSE
            /\ backlog' = 0
       ELSE /\ thr' = "reading"
            /\ backlog' = backlog - 1
            /\ UNCHANGED portListening
    /\ UNCHANGED <<args, mainVars, storeVars, sockClosed, connsSent>>
    /\ UNCHANGED <<vault_response, fsVars, auxVars>>
    /\ UNCHANGED <<callback_received, auth_result, req, served, response, setCount>>

\* BaseHTTPRequestHandler.handle_one_request for CallbackHandler
\* (auth.py:108): the request line is read and dispatched on its method. Only
\* do_GET is defined: any other method is answered 501 and a malformed request
\* line 400, both by send_error, without do_GET being called.
ReadRequest ==
    /\ thr = "reading"
    /\ \E r \in Requests :
        /\ req' = r
        /\ served' = served + 1
        /\ IF r.method = "GET"
           THEN /\ thr' = "do_GET"
                /\ UNCHANGED response
           ELSE /\ thr' = "finishing"
                /\ response' = [status |-> IF r.method = "BAD" THEN "400" ELSE "501",
                                body |-> "error page"]
    /\ UNCHANGED <<args, mainVars, storeVars, socketVars>>
    /\ UNCHANGED <<vault_response, fsVars, auxVars>>
    /\ UNCHANGED <<callback_received, auth_result, setCount>>

\* DoGetRecord with callback_received.set() moved to the top of the branches,
\* ahead of the write of the response.
DoGetRecord_SignalsFirst ==
    /\ thr = "do_GET"
    /\ auth_result' =
         CASE Branch(req) = "code" ->
                [auth_result EXCEPT !.code = parse_qs(req).code,
                                    !.state = EchoedState(req)]
           [] Branch(req) = "error" ->
                [auth_result EXCEPT !.error = ErrorText(req)]
           [] OTHER -> auth_result
    /\ callback_received' = TRUE
    /\ thr' = "respond"
    /\ UNCHANGED <<args, mainVars, storeVars, socketVars>>
    /\ UNCHANGED <<vault_response, fsVars, auxVars>>
    /\ UNCHANGED <<req, served, response, setCount>>

\* do_GET, auth.py:110-116 and 143-145: the query is parsed and the code (with
\* the echoed state) or the error is recorded in auth_result. The path is not
\* looked at.
DoGetRecord ==
    /\ thr = "do_GET"
    /\ auth_result' =
         CASE Branch(req) = "code" ->
                [auth_result EXCEPT !.code = parse_qs(req).code,
                                    !.state = EchoedState(req)]
           [] Branch(req) = "error" ->
                [auth_result EXCEPT !.error = ErrorText(req)]
           [] OTHER -> auth_result
    /\ thr' = "respond"
    /\ UNCHANGED <<args, mainVars, storeVars, socketVars>>
    /\ UNCHANGED <<vault_response, fsVars, auxVars>>
    /\ UNCHANGED <<callback_received, req, served, response, setCount>>

\* do_GET, auth.py:117-142, 146-171 and 173-174: status line, headers and page
\* are written to the connection (wfile is unbuffered).
DoGetRespond ==
    /\ thr = "respond"
    /\ response' =
         CASE Branch(req) = "code" -> [status |-> "200", body |-> "Login Successful"]
           [] Branch(req) = "error" -> [status |-> "400", body |-> "Login Failed"]
           [] OTHER -> [status |-> "400", body |-> ""]
    /\ thr' = "signal"
    /\ UNCHANGED <<args, mainVars, storeVars, socketVars>>
    /\ UNCHANGED <<vault_response, fsVars, auxVars>>
    /\ UNCHANGED <<callback_received, auth_result, req, served, setCount>>

\* do_GET, auth.py:176: callback_received.set()
DoGetSignal ==
    /\ thr = "signal"
    /\ callback_received' = TRUE
    /\ setCount' = setCount + 1
    /\ thr' = "finishing"
    /\ UNCHANGED <<args, mainVars, storeVars, socketVars>>
    /\ UNCHANGED <<vault_response, fsVars, auxVars>>
    /\ UNCHANGED <<auth_result, req, served, response>>

\* ThreadExit with the thread serving in a loop (serve_forever) instead of one
\* handle_request.
ThreadExit_ServesAgain ==
    /\ thr \in {"finishing", "woken"}
    /\ thr' = IF thr = "finishing" THEN "polling" ELSE "terminated"
    /\ UNCHANGED <<args, mainVars, storeVars, socketVars>>
    /\ UNCHANGED <<vault_response, fsVars, auxVars>>
    /\ UNCHANGED <<callback_received, auth_result, req, served, response, setCount>>

\* handle_request returns after its one request (or after the selector was
\* woken by the close of the socket) and server_thread ends (auth.py:187).
ThreadExit ==
    /\ thr \in {"finishing", "woken"}
    /\ thr' = "terminated"
    /\ UNCHANGED <<args, mainVars, storeVars, socketVars>>
    /\ UNCHANGED <<vault_response, fsVars, auxVars>>
    /\ UNCHANGED <<callback_received, auth_result, req, served, response, setCount>>

ThreadNext ==
    Accept \/ ReadRequest \/ DoGetRecord \/ DoGetRespond \/ DoGetSignal \/ ThreadExit

\* ------------------------------------------------------ the foreground flow

\* auth.py:182-188: the server binds 127.0.0.1 on a kernel-assigned port and
\* server_thread starts running server.handle_request.
StartListener ==
    /\ pc = "Idle"
    /\ pc' = "ListenerStarted"
    /\ portListening' = TRUE
    /\ thr' = "polling"
    /\ UNCHANGED <<args, storeVars, sockClosed, backlog, connsSent>>
    /\ UNCHANGED <<vault_response, fsVars, auxVars>>
    /\ UNCHANGED <<state, waitResult, exchangedCode, token_data, token, exc, errorMsg>>
    /\ UNCHANGED <<callback_received, auth_result, req, served, response, setCount>>

\* auth.py:190-213: the CSRF state is generated, put in the authorization URL
\* and the browser is opened on it.
OpenBrowser ==
    /\ pc = "ListenerStarted"
    /\ state' \in StateTokens
    /\ pc' = "BrowserOpened"
    /\ UNCHANGED <<args, listenerVars, socketVars, storeVars>>
    /\ UNCHANGED <<vault_response, fsVars, auxVars>>
    /\ UNCHANGED <<waitResult, exchangedCode, token_data, token, exc, errorMsg>>

\* auth.py:216-217: the foreground thread enters callback_received.wait.
BeginWait ==
    /\ pc = "BrowserOpened"
    /\ pc' = "AwaitingCallback"
    /\ UNCHANGED <<args, listenerVars, socketVars, storeVars>>
    /\ UNCHANGED <<vault_response, fsVars, auxVars>>
    /\ UNCHANGED <<state, waitResult, exchangedCode, token_data, token, exc, errorMsg>>

\* auth.py:217: wait returns because the event is set.
WaitSignalled ==
    /\ pc = "AwaitingCallback"
    /\ callback_received
    /\ waitResult' = "set"
    /\ pc' = "Closing"
    /\ UNCHANGED <<args, listenerVars, socketVars, storeVars>>
    /\ UNCHANGED <<vault_response, fsVars, auxVars>>
    /\ UNCHANGED <<state, exchangedCode, token_data, token, exc, errorMsg>>

\* auth.py:217: the 300 s elapse with the event still unset.
WaitTimeout ==
    /\ pc = "AwaitingCallback"
    /\ ~callback_received
    /\ waitResult' = "timeout"
    /\ pc' = "Closing"
    /\ UNCHANGED <<args, listenerVars, socketVars, storeVars>>
    /\ UNCHANGED <<vault_response, fsVars, auxVars>>
    /\ UNCHANGED <<state, exchangedCode, token_data, token, exc, errorMsg>>

\* auth.py:218: server.server_close() closes server.socket. A thread that is
\* blocked in the selector on that socket is not stopped by the call: what
\* happens to it is left to the platform (select(2): the result of closing a
\* monitored descriptor in another thread is unspecified). Either the thread
\* stays blocked and keeps the kernel socket, so the port goes on completing
\* connections (Linux), or the selector returns and the thread ends.
ServerClose ==
    /\ pc = "Closing"
    /\ pc' = "CheckError"
    /\ sockClosed' = TRUE
    /\ IF thr = "polling"
       THEN \/ UNCHANGED <<thr, portListening, backlog>>
            \/ /\ thr' = "woken"
               /\ portListening' = FALSE
               /\ backlog' = 0
       ELSE /\ portListening' = FALSE
            /\ backlog' = 0
            /\ UNCHANGED thr
    /\ UNCHANGED <<args, storeVars, connsSent>>
    /\ UNCHANGED <<vault_response, fsVars, auxVars>>
    /\ UNCHANGED <<state, waitResult, exchangedCode, token_data, token, exc, errorMsg>>
    /\ UNCHANGED <<callback_received, auth_result, req, served, response, setCount>>

\* auth.py:220-221
CheckError ==
    /\ pc = "CheckError"
    /\ IF auth_result.error # Absent
       THEN /\ exc' = "AuthError"
            /\ errorMsg' = AuthFailedMsg(auth_result.error)
            /\ pc' = "Failed"
       ELSE /\ pc' = "CheckCode"
            /\ UNCHANGED <<exc, errorMsg>>
    /\ UNCHANGED <<args, listenerVars, socketVars, storeVars>>
    /\ UNCHANGED <<vault_response, fsVars, auxVars>>
    /\ UNCHANGED <<state, waitResult, exchangedCode, token_data, token>>

\* CheckCode without the test for a missing code.
CheckCode_NoGuard ==
    /\ pc = "CheckCode"
    /\ pc' = "Exchanging"
    /\ UNCHANGED <<exc, errorMsg>>
    /\ UNCHANGED <<args, listenerVars, socketVars, storeVars>>
    /\ UNCHANGED <<vault_response, fsVars, auxVars>>
    /\ UNCHANGED <<state, waitResult, exchangedCode, token_data, token>>

\* auth.py:223-224
CheckCode ==
    /\ pc = "CheckCode"
    /\ IF auth_result.code = Absent
       THEN /\ exc' = "AuthError"
            /\ errorMsg' = TimedOutMsg
            /\ pc' = "Failed"
       ELSE /\ pc' = "Exchanging"
            /\ UNCHANGED <<exc, errorMsg>>
    /\ UNCHANGED <<args, listenerVars, socketVars, storeVars>>
    /\ UNCHANGED <<vault_response, fsVars, auxVars>>
    /\ UNCHANGED <<state, waitResult, exchangedCode, token_data, token>>

\* The code _browser_login posts to the token endpoint (auth.py:234).
PostedCode == auth_result.code

\* auth.py:239-241: the message of the AuthError raised for a non-success
\* response. The body is parsed only under a JSON content type.
ExchangeError(resp) ==
    IF resp.json /\ resp.error_description # Absent
    THEN <<resp.error_description>>
    ELSE ExchangeFailedMsg(resp.status)

\* auth.py:226-246: the code is posted to {vault_url}/auth/oauth/token with
\* the redirect URI; the echoed state recorded in auth_result is not read.
\* Only httpx.ConnectError is caught; response.json() raises when the body is
\* not JSON.
Exchange ==
    /\ pc = "Exchanging"
    /\ exchangedCode' = PostedCode
    /\ \E resp \in VaultResponses :
        /\ vault_response' = resp
        /\ CASE resp.kind = "connect_error" ->
                /\ exc' = "AuthError"
                /\ errorMsg' = CannotConnectMsg(vault_url)
                /\ pc' = "Failed"
                /\ UNCHANGED token_data
          [] resp.kind = "transport_timeout" ->
                /\ exc' = "httpx.TimeoutException"
                /\ errorMsg' = <<"timed out">>
                /\ pc' = "Failed"
                /\ UNCHANGED token_data
          [] resp.kind = "http" /\ resp.status # "200" /\ resp.json
                /\ resp.body = "malformed" ->
                /\ exc' = "json.JSONDecodeError"
                /\ errorMsg' = <<"response.json()">>
                /\ pc' = "Failed"
                /\ UNCHANGED token_data
          [] resp.kind = "http" /\ resp.status # "200"
                /\ ~(resp.json /\ resp.body = "malformed") ->
                /\ exc' = "AuthError"
                /\ errorMsg' = ExchangeError(resp)
                /\ pc' = "Failed"
                /\ UNCHANGED token_data
          [] resp.kind = "http" /\ resp.status = "200" /\ resp.body = "malformed" ->
                /\ exc' = "json.JSONDecodeError"
                /\ errorMsg' = <<"response.json()">>
                /\ pc' = "Failed"
                /\ UNCHANGED token_data
          [] OTHER ->
                /\ token_data' = resp
                /\ pc' = "BuildToken"
                /\ UNCHANGED <<exc, errorMsg>>
    /\ UNCHANGED <<args, listenerVars, socketVars, storeVars>>
    /\ UNCHANGED <<fsVars, auxVars>>
    /\ UNCHANGED <<state, waitResult, token>>

\* ExpiresAt preferring the relative expires_in to the absolute expires_at.
ExpiresAt_RelativeFirst(td, now) ==
    IF td.expires_in # NoInt THEN now + td.expires_in
    ELSE IF td.expires_at # NoInt THEN td.expires_at
    ELSE now + DefaultExpiresIn

\* auth.py:251
ExpiresAt(td, now) ==
    IF td.expires_at # NoInt THEN td.expires_at
    ELSE now + (IF td.expires_in # NoInt THEN td.expires_in ELSE DefaultExpiresIn)

\* auth.py:248-253: token_data["access_token"] raises KeyError when the body
\* has no access_token.
BuildToken ==
    /\ pc = "BuildToken"
    /\ IF token_data.access_token = Absent
       THEN /\ exc' = "KeyError"
            /\ errorMsg' = <<"access_token">>
            /\ pc' = "Failed"
            /\ UNCHANGED token
       ELSE /\ \E now \in Times :
                token' = [access_token |-> token_data.access_token,
                          expires_at |-> ExpiresAt(token_data, now),
                          tenant |-> tenant]
            /\ pc' = "SaveToken"
            /\ UNCHANGED <<exc, errorMsg>>
    /\ UNCHANGED <<args, listenerVars, socketVars, storeVars>>
    /\ UNCHANGED <<vault_response, fsVars, auxVars>>
    /\ UNCHANGED <<state, waitResult, exchangedCode, token_data>>

\* SaveToken storing the token under the key of the other tenant.
SaveToken_UnderOtherKey ==
    /\ pc = "SaveToken"
    /\ \E t \in Tenants \ {tenant} : tokens' = [tokens EXCEPT ![t] = token]
    /\ pc' = "SaveConfig"
    /\ UNCHANGED <<exc, errorMsg>>
    /\ UNCHANGED <<args, listenerVars, socketVars, config, tokens0, config0>>
    /\ UNCHANGED <<vault_response, fsVars, auxVars>>
    /\ UNCHANGED <<state, waitResult, exchangedCode, token_data, token>>

\* auth.py:255 and 295: save_token(tenant, token) replaces the tenant's
\* entry, or raises (keyring or file error) and leaves the entries as they
\* were, or raises in the file fallback after tokens.json was truncated, and
\* then no tenant's entry can be read.
SaveToken ==
    /\ pc = "SaveToken"
    /\ \/ /\ tokens' = [tokens EXCEPT ![tenant] = token]
          /\ pc' = "SaveConfig"
          /\ UNCHANGED <<exc, errorMsg>>
       \/ /\ exc' = "StorageError"
          /\ errorMsg' = <<"save_token">>
          /\ pc' = "Failed"
          /\ \/ UNCHANGED tokens
             \/ tokens' = [t \in Tenants |-> NoToken]
    /\ UNCHANGED <<args, listenerVars, socketVars, config, tokens0, config0>>
    /\ UNCHANGED <<vault_response, fsVars, auxVars>>
    /\ UNCHANGED <<state, waitResult, exchangedCode, token_data, token>>

\* SaveTenantConfig returning the token without writing the tenant's URL.
SaveTenantConfig_NoWrite ==
    /\ pc = "SaveConfig"
    /\ pc' = "Authenticated"
    /\ UNCHANGED <<exc, errorMsg, config>>
    /\ UNCHANGED <<args, listenerVars, socketVars, tokens, tokens0, config0>>
    /\ UNCHANGED <<vault_response, fsVars, auxVars>>
    /\ UNCHANGED <<state, waitResult, exchangedCode, token_data, token>>

\* auth.py:256-260 and 296-298: save_tenant_config(tenant, vault_url) writes the tenant's
\* URL and the token is returned, or the write raises.
SaveTenantConfig ==
    /\ pc = "SaveConfig"
    /\ \/ /\ config' = [config EXCEPT ![tenant] = vault_url]
          /\ pc' = "Authenticated"
          /\ UNCHANGED <<exc, errorMsg>>
       \/ /\ exc' = "StorageError"
          /\ errorMsg' = <<"save_tenant_config">>
          /\ pc' = "Failed"
          /\ UNCHANGED config
    /\ UNCHANGED <<args, listenerVars, socketVars, tokens, tokens0, config0>>
    /\ UNCHANGED <<vault_response, fsVars, auxVars>>
    /\ UNCHANGED <<state, waitResult, exchangedCode, token_data, token>>

\* ------------------------------------------- the service-account flow

InvalidCredentialsMsg == <<"Invalid service account credentials">>

EnterpriseTierMsg == <<"Service accounts require Enterprise tier">>

\* The required_tier and current_tier attributes of the exception a login
\* raised. auth.py raises AuthError, a plain Exception subclass that carries a
\* message only (auth.py:28-30); TierError (client.py:28-34) is never raised
\* by it.
RaisedTiers == [required_tier |-> Absent, current_tier |-> Absent]

\* auth.py:270-286 and 300-301: the credentials are posted to
\* {vault_url}/api/v1/auth/service-account. 401 and 403 raise AuthError, every
\* other non-success status raises through raise_for_status, and only
\* httpx.ConnectError is turned into the cannot-connect AuthError.
ServiceAccountPost ==
    /\ pc = "ServiceAccountPost"
    /\ \E resp \in ServiceAccountResponses :
        /\ vault_response' = resp
        /\ CASE resp.kind = "connect_error" ->
                /\ exc' = "AuthError"
                /\ errorMsg' = CannotConnectMsg(vault_url)
                /\ pc' = "Failed"
                /\ UNCHANGED token_data
          [] resp.kind = "transport_timeout" ->
                /\ exc' = "httpx.TimeoutException"
                /\ errorMsg' = <<"timed out">>
                /\ pc' = "Failed"
                /\ UNCHANGED token_data
          [] resp.kind = "http" /\ resp.status = "401" ->
                /\ exc' = "AuthError"
                /\ errorMsg' = InvalidCredentialsMsg
                /\ pc' = "Failed"
                /\ UNCHANGED token_data
          [] resp.kind = "http" /\ resp.status = "403" ->
                /\ exc' = "AuthError"
                /\ errorMsg' = EnterpriseTierMsg
                /\ pc' = "Failed"
                /\ UNCHANGED token_data
          [] resp.kind = "http" /\ resp.status \notin {"200", "401", "403"} ->
                /\ exc' = "httpx.HTTPStatusError"
                /\ errorMsg' = <<"raise_for_status: ", resp.status>>
                /\ pc' = "Failed"
                /\ UNCHANGED token_data
          [] resp.kind = "http" /\ resp.status = "200" /\ resp.body = "malformed" ->
                /\ exc' = "json.JSONDecodeError"
                /\ errorMsg' = <<"response.json()">>
                /\ pc' = "Failed"
                /\ UNCHANGED token_data
          [] OTHER ->
                /\ token_data' = resp
                /\ pc' = "ServiceAccountToken"
                /\ UNCHANGED <<exc, errorMsg>>
    /\ UNCHANGED <<args, listenerVars, socketVars, storeVars>>
    /\ UNCHANGED <<fsVars, auxVars>>
    /\ UNCHANGED <<state, waitResult, exchangedCode, token>>

\* auth.py:288-293: data["access_token"] and data["expires_at"] raise KeyError
\* when the body lacks the member.
ServiceAccountToken ==
    /\ pc = "ServiceAccountToken"
    /\ IF token_data.access_token = Absent \/ token_data.expires_at = NoInt
       THEN /\ exc' = "KeyError"
            /\ errorMsg' = <<IF token_data.access_token = Absent
                             THEN "access_token" ELSE "expires_at">>
            /\ pc' = "Failed"
            /\ UNCHANGED token
       ELSE /\ token' = [access_token |-> token_data.access_token,
                         expires_at |-> token_data.expires_at,
                         tenant |-> tenant]
            /\ pc' = "SaveToken"
            /\ UNCHANGED <<exc, errorMsg>>
    /\ UNCHANGED <<args, listenerVars, socketVars, storeVars>>
    /\ UNCHANGED <<vault_response, fsVars, auxVars>>
    /\ UNCHANGED <<state, waitResult, exchangedCode, token_data>>

ServiceAccountNext == ServiceAccountPost \/ ServiceAccountToken

MainNext ==
    \/ StartListener \/ OpenBrowser \/ BeginWait \/ WaitSignalled \/ WaitTimeout
    \/ ServerClose \/ CheckError \/ CheckCode \/ Exchange \/ BuildToken
    \/ SaveToken \/ SaveTenantConfig

Next == MainNext \/ ThreadNext \/ Connect

Spec == Init /\ [][Next]_vars

\* One call of login, which runs the service-account flow when both api_key
\* and master_key are given and the browser flow otherwise (auth.py:84-88).
Flows == {"browser", "service_account"}

LoginInit == \E f \in Flows : InitFlow(f)

LoginNext == Next \/ ServiceAccountNext

LoginSpec == LoginInit /\ [][LoginNext]_vars

\* ------------------------------------------------------- login's dispatch

\* auth.py:25
DEFAULT_VAULT_URL == "https://localhost:5001"

\* The vault_url argument: None, empty, a URL, and the URL with one and with
\* two trailing slashes.
UrlArgs == {Absent, "", "https://vault.example.com", "https://vault.example.com/",
            "https://vault.example.com//"}

\* The "url" of the tenant's entry in config.yaml: none, or the URL a login
\* or the user wrote.
ConfiguredUrls == {Absent, "https://old.example.com", "https://old.example.com/"}

\* str.rstrip("/") on the URLs above (auth.py:81).
rstrip(u) ==
    CASE u \in {"https://vault.example.com/", "https://vault.example.com//"}
             -> "https://vault.example.com"
      [] u = "https://old.example.com/" -> "https://old.example.com"
      [] OTHER -> u

\* The resolution looking at the configuration before the argument.
resolve_vault_url_ConfigFirst(arg, configured) ==
    rstrip(IF configured \notin {Absent, ""} THEN configured
           ELSE IF arg \notin {Absent, ""} THEN arg
           ELSE DEFAULT_VAULT_URL)

\* auth.py:71-81: "if not vault_url" takes the tenant's configured URL, a
\* second "if not vault_url" the default; then rstrip("/").
resolve_vault_url(arg, configured) ==
    rstrip(IF arg \notin {Absent, ""} THEN arg
           ELSE IF configured \notin {Absent, ""} THEN configured
           ELSE DEFAULT_VAULT_URL)

\* login is called: any arguments, any configuration.
DispatchInit ==
    /\ tenant = "acme"
    /\ vault_url = Absent
    /\ url_arg \in UrlArgs
    /\ api_key \in KeyValues
    /\ master_key \in KeyValues
    /\ flow = Absent
    /\ pc = "Login"
    /\ FlowQuiet
    /\ FsQuiet
    /\ AuxQuiet
    /\ tokens = [t \in Tenants |-> NoToken]
    /\ \E u \in ConfiguredUrls : config = [t \in Tenants |-> u]
    /\ tokens0 = tokens
    /\ config0 = config

\* auth.py:71-88: login resolves the URL and calls _service_account_login
\* when api_key and master_key are both truthy, _browser_login otherwise.
Login ==
    /\ pc = "Login"
    /\ vault_url' = resolve_vault_url(url_arg, config[tenant])
    /\ flow' = IF api_key \notin {Absent, ""} /\ master_key \notin {Absent, ""}
               THEN "service_account" ELSE "browser"
    /\ pc' = IF flow' = "service_account" THEN "ServiceAccountPost" ELSE "Idle"
    /\ UNCHANGED <<tenant, url_arg, api_key, master_key>>
    /\ UNCHANGED <<state, waitResult, exchangedCode, token_data, token, exc, errorMsg>>
    /\ UNCHANGED <<listenerVars, socketVars, storeVars, vault_response, fsVars, auxVars>>

\* login from its first line; the service-account flow to its end, the
\* browser flow up to its call (its steps are Next's).
DispatchNext == Login \/ ServiceAccountNext \/ SaveToken \/ SaveTenantConfig

DispatchSpec == DispatchInit /\ [][DispatchNext]_vars

\* ---------------------------------------------------------- the token store

loginVars == <<args, mainVars, listenerVars, socketVars, storeVars, vault_response>>

EmptyDict == [t \in Tenants |-> NoToken]

\* The tokens a caller passes to save_token for tenant t.
SaveableTokens(t) ==
    {[access_token |-> "tok123", expires_at |-> 5000, tenant |-> t],
     [access_token |-> "tok456", expires_at |-> 9000, tenant |-> t]}

\* A stored JSON object that lacks the access_token member.
MalformedEntry(t) == [access_token |-> Absent, expires_at |-> 2000, tenant |-> t]

\* What a call hands back: a value, or the exception it raised.
Returned(v) == [raised |-> "none", value |-> v]

Raised(e) == [raised |-> e, value |-> NoToken]

\* keyring_store.py:28-39: the file fallback is used when the keyring module
\* is missing or when the probing read of the keyring raises.
use_file_fallback == keyring_state # "working"

\* keyring_store.py:77-83: the JSON object with the three members.
to_json(tok) ==
    [access_token |-> tok.access_token, expires_at |-> tok.expires_at,
     tenant |-> tok.tenant]

\* keyring_store.py:85-93: obj["access_token"], obj["expires_at"] and
\* obj["tenant"] raise KeyError for a missing member.
from_json(obj) ==
    IF obj.access_token = Absent \/ obj.expires_at = NoInt \/ obj.tenant = Absent
    THEN Raised("KeyError")
    ELSE Returned([access_token |-> obj.access_token, expires_at |-> obj.expires_at,
                   tenant |-> obj.tenant])

\* keyring_store.py:42-49: {} when the file is missing, when it does not parse
\* and when reading it raises IOError (fault).
load_tokens_file(fault) ==
    IF tokens_file.st = "written" /\ ~fault THEN tokens_file.data ELSE EmptyDict

\* keyring_store.py:107-114, the body of the try block of get_token: fault is
\* an IOError of the file read, or keyring.get_password raising.
get_token_try(t, fault) ==
    LET data == IF use_file_fallback THEN Returned(load_tokens_file(fault)[t])
                ELSE IF fault THEN Raised("keyring.errors.KeyringError")
                ELSE Returned(keyring_passwords[t])
    IN  IF data.raised # "none" THEN data
        ELSE IF data.value = NoToken THEN Returned(NoToken)
        ELSE from_json(data.value)

\* get_token without its except clause.
get_token_NoExcept(t, fault) == get_token_try(t, fault)

\* keyring_store.py:96-117: every exception of the try block ends in
\* "return None".
get_token(t, fault) ==
    LET r == get_token_try(t, fault)
    IN  IF r.raised # "none" THEN Returned(NoToken) ELSE r

\* The entry get_token reads for t when nothing fails.
StoredEntry(t) ==
    IF use_file_fallback THEN load_tokens_file(FALSE)[t] ELSE keyring_passwords[t]

\* A call of get_token(t), by this process or by another one, at any moment.
DoGet ==
    /\ \E t \in Tenants, fault \in BOOLEAN :
        got' = [tenant |-> t, fault |-> fault, entry |-> StoredEntry(t),
                raised |-> get_token(t, fault).raised,
                value |-> get_token(t, fault).value]
    /\ UNCHANGED <<loginVars, auxVars, writers, backendVars, op, lo, last, saved>>

\* Path.mkdir and Path.write_text create with 0o777 and 0o666 less the umask
\* (keyring_store.py:54-55 pass no mode).
CreatedDirMode == IF umask = "077" THEN "0700" ELSE "0755"

CreatedFileMode == IF umask = "077" THEN "0600" ELSE "0644"

\* The record of logout's loop after delete_token(t) came back, failed telling
\* whether the storage operation failed (auth.py:316-320).
AfterDelete_AbortsOnFailure(l, t, failed) ==
    IF failed THEN [l EXCEPT !.failed = @ \cup {t}, !.todo = <<>>] ELSE l

AfterDelete(l, t, failed) ==
    IF failed THEN [l EXCEPT !.failed = @ \cup {t}] ELSE l

\* keyring_store.py:144-151: delete_token(t) begins. In the file fallback the
\* dict is loaded and t popped; in the keyring delete_password removes the
\* entry, or raises because there is none or because the backend fails, and
\* the exception is swallowed.
StartDelete(t, l) ==
    /\ saved' = [saved EXCEPT ![t] = NoToken]
    /\ IF use_file_fallback
       THEN /\ \E fault \in BOOLEAN :
                 op' = [name |-> "delete_token", tenant |-> t, step |-> "mkdir",
                        pending |-> [load_tokens_file(fault) EXCEPT ![t] = NoToken],
                        tok |-> NoToken,
                        readable |-> tokens_file.st # "partial" /\ ~fault]
            /\ lo' = l
            /\ last' = NoCall
            /\ UNCHANGED backendVars
       ELSE /\ \/ /\ keyring_passwords' = [keyring_passwords EXCEPT ![t] = NoToken]
                  /\ last' = [name |-> "delete_token", tenant |-> t,
                              raised |-> FALSE, failed |-> FALSE,
                              readable |-> TRUE,
                              before |-> [keyring_passwords EXCEPT ![t] = NoToken]]
                  /\ lo' = l
               \/ /\ keyring_passwords[t] # NoToken
                  /\ UNCHANGED keyring_passwords
                  /\ last' = [name |-> "delete_token", tenant |-> t,
                              raised |-> FALSE, failed |-> TRUE,
                              readable |-> TRUE,
                              before |-> [keyring_passwords EXCEPT ![t] = NoToken]]
                  /\ lo' = IF l.active THEN AfterDelete(l, t, TRUE) ELSE l
            /\ UNCHANGED <<keyring_state, umask, tokens_file, file_mode, dir_mode, op>>
    /\ got' = NoGet
    /\ UNCHANGED <<loginVars, auxVars, writers>>

\* logout(tenant), auth.py:311-312.
BeginDelete ==
    /\ op.name = "idle"
    /\ ~lo.active
    /\ \E t \in Tenants : StartDelete(t, NoLogout)

\* keyring_store.py:128-133: save_token(t, tok) begins. In the file fallback
\* the dict is loaded and the entry of t replaced; in the keyring set_password
\* stores the JSON text or raises, and save_token lets the exception through.
BeginSave ==
    /\ op.name = "idle"
    /\ ~lo.active
    /\ \E t \in Tenants : \E tok \in SaveableTokens(t) :
        IF use_file_fallback
        THEN /\ \E fault \in BOOLEAN :
                  op' = [name |-> "save_token", tenant |-> t, step |-> "mkdir",
                         pending |-> [load_tokens_file(fault) EXCEPT ![t] = to_json(tok)],
                         tok |-> tok,
                         readable |-> tokens_file.st # "partial" /\ ~fault]
             /\ saved' = [saved EXCEPT ![t] = NoToken]
             /\ last' = NoCall
             /\ lo' = NoLogout
             /\ UNCHANGED backendVars
        ELSE /\ \/ /\ keyring_passwords' = [keyring_passwords EXCEPT ![t] = to_json(tok)]
                   /\ last' = [name |-> "save_token", tenant |-> t,
                               raised |-> FALSE, failed |-> FALSE,
                               readable |-> TRUE,
                               before |-> [keyring_passwords EXCEPT ![t] = NoToken]]
                   /\ saved' = [saved EXCEPT ![t] = tok]
                \/ /\ UNCHANGED keyring_passwords
                   /\ last' = [name |-> "save_token", tenant |-> t,
                               raised |-> TRUE, failed |-> TRUE,
                               readable |-> TRUE,
                               before |-> [keyring_passwords EXCEPT ![t] = NoToken]]
                   /\ saved' = [saved EXCEPT ![t] = NoToken]
             /\ lo' = NoLogout
             /\ UNCHANGED <<keyring_state, umask, tokens_file, file_mode, dir_mode, op>>
    /\ got' = NoGet
    /\ UNCHANGED <<loginVars, auxVars, writers>>

\* The call in progress ends: save_token raises what _save_tokens_file raised,
\* delete_token swallows it (keyring_store.py:150-151).
EndCall(failed) ==
    /\ op' = NoOp
    /\ last' = [name |-> op.name, tenant |-> op.tenant,
                raised |-> (failed /\ op.name = "save_token"), failed |-> failed,
                readable |-> op.readable,
                before |-> [op.pending EXCEPT ![op.tenant] = NoToken]]
    /\ saved' = IF op.name = "save_token" /\ ~failed
                THEN [saved EXCEPT ![op.tenant] = op.tok] ELSE saved
    /\ lo' = IF lo.active THEN AfterDelete(lo, op.tenant, failed) ELSE lo

\* keyring_store.py:54: CONFIG_DIR.mkdir(parents=True, exist_ok=True)
MakeDir ==
    /\ op.step = "mkdir"
    /\ \/ /\ dir_mode' = IF dir_mode = "none" THEN CreatedDirMode ELSE dir_mode
          /\ op' = [op EXCEPT !.step = "open"]
          /\ UNCHANGED <<last, saved, lo>>
       \/ /\ EndCall(TRUE)
          /\ UNCHANGED dir_mode
    /\ got' = NoGet
    /\ UNCHANGED <<loginVars, auxVars, writers, keyring_state, umask, keyring_passwords, tokens_file,
                   file_mode>>

\* keyring_store.py:55: write_text opens TOKENS_FILE for writing, which
\* creates it or truncates it in place.
OpenFile ==
    /\ op.step = "open"
    /\ \/ /\ tokens_file' = [st |-> "partial", data |-> EmptyDict]
          /\ file_mode' = IF file_mode = "none" THEN CreatedFileMode ELSE file_mode
          /\ op' = [op EXCEPT !.step = "write"]
          /\ UNCHANGED <<last, saved, lo>>
       \/ /\ EndCall(TRUE)
          /\ UNCHANGED <<tokens_file, file_mode>>
    /\ got' = NoGet
    /\ UNCHANGED <<loginVars, auxVars, writers, keyring_state, umask, keyring_passwords, dir_mode>>

\* keyring_store.py:55: write_text writes json.dumps(tokens) and closes.
WriteFile ==
    /\ op.step = "write"
    /\ \/ /\ tokens_file' = [st |-> "written", data |-> op.pending]
          /\ op' = [op EXCEPT !.step = "chmod"]
          /\ UNCHANGED <<last, saved, lo>>
       \/ /\ EndCall(TRUE)
          /\ UNCHANGED tokens_file
    /\ got' = NoGet
    /\ UNCHANGED <<loginVars, auxVars, writers, keyring_state, umask, keyring_passwords, file_mode,
                   dir_mode>>

\* keyring_store.py:57: os.chmod(TOKENS_FILE, 0o600)
Chmod ==
    /\ op.step = "chmod"
    /\ \/ /\ file_mode' = "0600"
          /\ EndCall(FALSE)
       \/ /\ EndCall(TRUE)
          /\ UNCHANGED file_mode
    /\ got' = NoGet
    /\ UNCHANGED <<loginVars, auxVars, writers, keyring_state, umask, keyring_passwords, tokens_file,
                   dir_mode>>

\* The process is killed inside _save_tokens_file.
Crash ==
    /\ op.name # "idle"
    /\ op' = NoOp
    /\ lo' = NoLogout
    /\ last' = [NoCall EXCEPT !.name = "crash", !.tenant = op.tenant, !.failed = TRUE]
    /\ got' = NoGet
    /\ UNCHANGED <<loginVars, auxVars, writers, backendVars, saved>>

\* The tenants of the configuration (auth.py:315-316).
Configured == {t \in Tenants : config[t] # Absent}

\* The orders in which a dict of those tenants can be iterated.
Orders(S) ==
    {sq \in UNION {[1..n -> S] : n \in {Cardinality(S)}} :
        \A i, j \in DOMAIN sq : i # j => sq[i] # sq[j]}

\* auth.py:313-316: logout(None) reads the configuration.
BeginLogout ==
    /\ op.name = "idle"
    /\ ~lo.active
    /\ \E sq \in Orders(Configured) :
        lo' = [active |-> TRUE, order |-> sq, todo |-> sq,
               before |-> {t \in Tenants : get_token(t, FALSE).value # NoToken},
               attempted |-> {}, failed |-> {}]
    /\ last' = NoCall
    /\ got' = NoGet
    /\ UNCHANGED <<loginVars, auxVars, writers, backendVars, op, saved>>

\* auth.py:316-320: one turn of the loop, or its end.
LogoutStep ==
    /\ lo.active
    /\ op.name = "idle"
    /\ IF lo.todo = <<>>
       THEN /\ lo' = [lo EXCEPT !.active = FALSE]
            /\ last' = [NoCall EXCEPT !.name = "logout", !.failed = lo.failed # {}]
            /\ got' = NoGet
            /\ UNCHANGED <<loginVars, auxVars, writers, backendVars, op, saved>>
       ELSE StartDelete(Head(lo.todo),
                        [lo EXCEPT !.todo = Tail(@),
                                   !.attempted = @ \cup {Head(lo.todo)}])

StoreContents ==
    {EmptyDict, [t \in Tenants |-> OldToken(t)],
     [t \in Tenants |-> IF t = "acme" THEN MalformedEntry(t) ELSE OldToken(t)]}

\* A machine on which earlier calls have completed: with a working keyring the
\* entries are in the keyring; without one they are in TOKENS_FILE, which a
\* completed _save_tokens_file left with mode 0600.
StoreInit ==
    /\ tenant = "acme"
    /\ vault_url \in VaultUrls
    /\ url_arg = vault_url
    /\ api_key = Absent
    /\ master_key = Absent
    /\ flow = "browser"
    /\ pc = "Idle"
    /\ FlowQuiet
    /\ tokens = EmptyDict
    /\ config \in {[t \in Tenants |-> "https://old.example.com"],
                   [t \in Tenants |-> IF t = "acme" THEN "https://old.example.com"
                                      ELSE Absent]}
    /\ tokens0 = tokens
    /\ config0 = config
    /\ keyring_state \in {"working", "failing", "not_installed"}
    /\ umask \in {"022", "077"}
    /\ IF keyring_state = "working"
       THEN /\ keyring_passwords \in StoreContents
            /\ tokens_file = [st |-> "missing", data |-> EmptyDict]
            /\ file_mode = "none"
            /\ dir_mode = "none"
       ELSE /\ keyring_passwords = EmptyDict
            /\ \/ /\ tokens_file = [st |-> "missing", data |-> EmptyDict]
                  /\ file_mode = "none"
                  /\ dir_mode \in {"none", "0700"}
               \/ /\ tokens_file \in [st : {"written"}, data : StoreContents]
                  /\ file_mode = "0600"
                  /\ dir_mode = "0700"
    /\ CallsQuiet
    /\ AuxQuiet

StoreNext ==
    \/ BeginSave \/ BeginDelete \/ MakeDir \/ OpenFile \/ WriteFile \/ Chmod
    \/ Crash \/ BeginLogout \/ LogoutStep \/ DoGet

StoreSpec == StoreInit /\ [][StoreNext]_vars

\* ---------------------------------------------------- concurrent writers

\* Two processes, each calling save_token once, p1 for acme and p2 for beta,
\* on a machine without a working keyring. Their reads and writes succeed.
RaceInit ==
    /\ LoginQuiet
    /\ AuxQuiet
    /\ keyring_state \in {"failing", "not_installed"}
    /\ umask \in {"022", "077"}
    /\ keyring_passwords = EmptyDict
    /\ \/ /\ tokens_file = [st |-> "missing", data |-> EmptyDict]
          /\ file_mode = "none"
          /\ dir_mode \in {"none", "0700"}
       \/ /\ tokens_file \in [st : {"written"}, data : StoreContents]
          /\ file_mode = "0600"
          /\ dir_mode = "0700"
    /\ op = NoOp
    /\ lo = NoLogout
    /\ last = NoCall
    /\ got = NoGet
    /\ saved = EmptyDict
    /\ \E t1 \in SaveableTokens("acme"), t2 \in SaveableTokens("beta") :
          writers = [p \in Procs |->
                       [pc |-> "load", tenant |-> IF p = "p1" THEN "acme" ELSE "beta",
                        tok |-> IF p = "p1" THEN t1 ELSE t2, pending |-> EmptyDict]]

\* keyring_store.py:129-130: tokens = _load_tokens_file();
\* tokens[tenant] = json.loads(token.to_json()).
WriterLoad ==
    /\ \E p \in Procs :
        /\ writers[p].pc = "load"
        /\ writers' = [writers EXCEPT
                          ![p].pc = "mkdir",
                          ![p].pending = [load_tokens_file(FALSE) EXCEPT
                                             ![writers[p].tenant] = to_json(writers[p].tok)]]
    /\ UNCHANGED <<loginVars, auxVars, backendVars, op, lo, last, got, saved>>

\* keyring_store.py:54
WriterMakeDir ==
    /\ \E p \in Procs :
        /\ writers[p].pc = "mkdir"
        /\ writers' = [writers EXCEPT ![p].pc = "open"]
    /\ dir_mode' = IF dir_mode = "none" THEN CreatedDirMode ELSE dir_mode
    /\ UNCHANGED <<loginVars, auxVars, keyring_state, umask, keyring_passwords,
                   tokens_file, file_mode, op, lo, last, got, saved>>

\* keyring_store.py:55: write_text opens the file, creating or truncating it.
WriterOpen ==
    /\ \E p \in Procs :
        /\ writers[p].pc = "open"
        /\ writers' = [writers EXCEPT ![p].pc = "write"]
    /\ tokens_file' = [st |-> "partial", data |-> EmptyDict]
    /\ file_mode' = IF file_mode = "none" THEN CreatedFileMode ELSE file_mode
    /\ UNCHANGED <<loginVars, auxVars, keyring_state, umask, keyring_passwords,
                   dir_mode, op, lo, last, got, saved>>

\* keyring_store.py:55: write_text writes the dict the process holds.
WriterWrite ==
    /\ \E p \in Procs :
        /\ writers[p].pc = "write"
        /\ writers' = [writers EXCEPT ![p].pc = "chmod"]
        /\ tokens_file' = [st |-> "written", data |-> writers[p].pending]
    /\ UNCHANGED <<loginVars, auxVars, keyring_state, umask, keyring_passwords,
                   file_mode, dir_mode, op, lo, last, got, saved>>

\* keyring_store.py:57, and save_token returns.
WriterChmod ==
    /\ \E p \in Procs :
        /\ writers[p].pc = "chmod"
        /\ writers' = [writers EXCEPT ![p].pc = "done"]
    /\ file_mode' = "0600"
    /\ UNCHANGED <<loginVars, auxVars, keyring_state, umask, keyring_passwords,
                   tokens_file, dir_mode, op, lo, last, got, saved>>

RaceNext == WriterLoad \/ WriterMakeDir \/ WriterOpen \/ WriterWrite \/ WriterChmod

RaceSpec == RaceInit /\ [][RaceNext]_vars

\* ------------------------------------------- the clock and the API client

\* "with 5 min buffer" (keyring_store.py:70).
ExpiryBuffer == 300

\* The moments, in half seconds, at which a token is looked at: around the
\* point where each stored token enters its buffer, before it and after the
\* token has run out.
ClockValues == {0, 1, 400, 401, 1999, 2000, 2001, 2002, 2599, 2600, 2601, 3400, 3402,
                4001, 6000}

\* The expires_at of the tokens earlier logins have stored.
ExpiryValues == {200, 1300, 2000}

\* int(time.time()): the fraction is dropped (keyring_store.py:75).
int_time(c) == c \div 2

\* is_expired with >= in place of >.
is_expired_Inclusive(tok, c) == c >= 2 * (tok.expires_at - ExpiryBuffer)

\* keyring_store.py:67-70: time.time() > (self.expires_at - 300).
is_expired(tok, c) == c > 2 * (tok.expires_at - ExpiryBuffer)

\* expires_in without the max.
expires_in_Signed(tok, c) == tok.expires_at - int_time(c)

\* keyring_store.py:72-75: max(0, self.expires_at - int(time.time())).
expires_in(tok, c) ==
    LET left == tok.expires_at - int_time(c)
    IN  IF 0 >= left THEN 0 ELSE left

\* The token stored for a tenant by an earlier login, or what is left of it.
StoredValues(t) ==
    {NoToken, MalformedEntry(t)}
        \cup {[access_token |-> "old", expires_at |-> e, tenant |-> t] :
                 e \in ExpiryValues}

\* A machine on which logins have completed, at some moment: the entries are
\* in the keyring, or in TOKENS_FILE when the keyring does not work.
ClientInit ==
    /\ tenant \in Tenants
    /\ vault_url \in VaultUrls
    /\ url_arg = vault_url
    /\ api_key \in KeyValues
    /\ master_key \in KeyValues
    /\ flow = "browser"
    /\ pc = "Idle"
    /\ FlowQuiet
    /\ tokens = EmptyDict
    /\ config = [t \in Tenants |-> "https://old.example.com"]
    /\ tokens0 = tokens
    /\ config0 = config
    /\ keyring_state \in {"working", "failing"}
    /\ umask = "022"
    /\ \E v \in StoredValues(tenant) :
          LET data == [t \in Tenants |-> IF t = tenant THEN v ELSE OldToken(t)]
          IN  IF keyring_state = "working"
              THEN /\ keyring_passwords = data
                   /\ tokens_file = [st |-> "missing", data |-> EmptyDict]
                   /\ file_mode = "none"
                   /\ dir_mode = "none"
              ELSE /\ keyring_passwords = EmptyDict
                   /\ tokens_file = [st |-> "written", data |-> data]
                   /\ file_mode = "0600"
                   /\ dir_mode = "0700"
    /\ CallsQuiet
    /\ clock \in ClockValues
    /\ probe = NoProbe
    /\ api_call = NoApiCall
    /\ ConfigQuiet
    /\ EnvQuiet

\* cli.py:41-45 and 84-88: a command gets the token of a tenant and reads
\* its is_expired and its expires_in.
ReadExpiry ==
    /\ \E t \in Tenants :
        LET tok == get_token(t, FALSE).value
        IN  /\ tok # NoToken
            /\ probe' = [tenant |-> t, expires_at |-> tok.expires_at,
                         is_expired |-> is_expired(tok, clock),
                         expires_in |-> expires_in(tok, clock)]
    /\ UNCHANGED <<loginVars, fsVars, clock, api_call, cfgVars, envVars>>

\* _get_auth_headers sending the stored token without looking at is_expired.
get_auth_headers_NoExpiryCheck(fault) ==
    IF api_key \notin {Absent, ""} /\ master_key \notin {Absent, ""}
    THEN [raised |-> "none", headers |-> [kind |-> "service_account",
                                          access_token |-> Absent]]
    ELSE LET tok == get_token(tenant, fault).value
         IN  IF tok = NoToken
             THEN [raised |-> "AuthenticationError", headers |-> NoHeaders]
             ELSE [raised |-> "none",
                   headers |-> [kind |-> "bearer", access_token |-> tok.access_token]]

\* client.py:88-127: the signed headers of a service account when api_key and
\* master_key are both set; otherwise the stored token of the tenant, with
\* AuthenticationError when there is none or when it is expired. fault is a
\* failing read of the store, which get_token turns into None.
get_auth_headers(fault) ==
    IF api_key \notin {Absent, ""} /\ master_key \notin {Absent, ""}
    THEN [raised |-> "none", headers |-> [kind |-> "service_account",
                                          access_token |-> Absent]]
    ELSE LET tok == get_token(tenant, fault).value
         IN  IF tok = NoToken \/ is_expired(tok, clock)
             THEN [raised |-> "AuthenticationError", headers |-> NoHeaders]
             ELSE [raised |-> "none",
                   headers |-> [kind |-> "bearer", access_token |-> tok.access_token]]

\* client.py:129-131: get_env begins with headers = self._get_auth_headers().
GetAuthHeaders ==
    /\ api_call.pc = "idle"
    /\ \E fault \in BOOLEAN :
        LET r == get_auth_headers(fault)
        IN  api_call' = [api_call EXCEPT
                            !.pc = IF r.raised = "none" THEN "headers" ELSE "raised",
                            !.fault = fault, !.headers = r.headers,
                            !.raised = r.raised]
    /\ UNCHANGED <<loginVars, fsVars, clock, probe, cfgVars, envVars>>

\* client.py:133-163: the GET is sent with the headers; 401 raises
\* AuthenticationError, 403 TierError, 404 IKVClientError, another error
\* status httpx.HTTPStatusError, and 200 returns the variables.
HttpGet ==
    /\ api_call.pc = "headers"
    /\ \E status \in {"200", "401", "403", "404", "500"} :
        LET e == CASE status = "401" -> "AuthenticationError"
                   [] status = "403" -> "TierError"
                   [] status = "404" -> "IKVClientError"
                   [] status = "500" -> "httpx.HTTPStatusError"
                   [] OTHER -> "none"
        IN  api_call' = [api_call EXCEPT
                            !.pc = IF e = "none" THEN "returned" ELSE "raised",
                            !.sent = api_call.headers, !.status = status,
                            !.raised = e]
    /\ UNCHANGED <<loginVars, fsVars, clock, probe, cfgVars, envVars>>

ClientNext == ReadExpiry \/ GetAuthHeaders \/ HttpGet

ClientSpec == ClientInit /\ [][ClientNext]_vars

\* ------------------------------------------------ the tenant configuration

ConfigUrls == {"https://old.example.com", "https://vault.example.com"}

\* The default_record argument: None, empty, or the id of a record.
DefaultRecords == {Absent, "", "rec1"}

\* save_tenant_config keeping the URL a tenant already has.
save_tenant_config_KeepsFirst(cfg, t, url, dr) ==
    IF cfg.tenants[t] # NoEntry THEN [cfg EXCEPT !.st = "written", !.mode = "0600"]
    ELSE [st |-> "written", mode |-> "0600",
          tenants |-> [cfg.tenants EXCEPT ![t] = [url |-> url, default_record |-> Absent]]]

\* config.py:60-81 with 26-57: the configuration is loaded, the tenant's
\* entry is replaced by {"url": vault_url}, default_record is added when it
\* is not empty, and the whole configuration is written and chmod'ed to 0600.
save_tenant_config(cfg, t, url, dr) ==
    [st |-> "written", mode |-> "0600",
     tenants |-> [cfg.tenants EXCEPT
                     ![t] = [url |-> url,
                             default_record |-> IF dr \notin {Absent, ""} THEN dr
                                                ELSE Absent]]]

\* A machine before the calls: no config.yaml, or the one earlier logins and
\* the user have left.
ConfigInit ==
    /\ LoginQuiet
    /\ FsQuiet
    /\ ClockQuiet
    /\ EnvQuiet
    /\ config_file \in
          {NoConfigFile,
           [st |-> "written", mode |-> "0600",
            tenants |-> [t \in Tenants |->
                            IF t = "acme"
                            THEN [url |-> "https://old.example.com",
                                  default_record |-> "rec0"]
                            ELSE NoEntry]]}
    /\ cfg_call = NoCfgCall

\* A call of save_tenant_config(t, url, dr): it returns with the file
\* written; or get_config or the open of the file raises and the file is as
\* it was; or the dump raises after open(config_path, "w") has truncated the
\* file, which then holds no tenant.
SaveTenantConfigCall ==
    /\ \E t \in Tenants, url \in ConfigUrls, dr \in DefaultRecords :
        LET call == [tenant |-> t, url |-> url, default_record |-> dr,
                     before |-> config_file, raised |-> FALSE,
                     repeated |-> /\ ~cfg_call.raised
                                  /\ cfg_call.tenant = t
                                  /\ cfg_call.url = url
                                  /\ cfg_call.default_record = dr]
        IN  \/ /\ config_file' = save_tenant_config(config_file, t, url, dr)
               /\ cfg_call' = call
            \/ /\ config_file' \in
                     {config_file,
                      [st |-> "written",
                       mode |-> IF config_file.st = "missing" THEN CreatedFileMode
                                ELSE config_file.mode,
                       tenants |-> [x \in Tenants |-> NoEntry]]}
               /\ cfg_call' = [call EXCEPT !.raised = TRUE, !.repeated = FALSE]
    /\ UNCHANGED <<loginVars, fsVars, clockVars, envVars>>

ConfigNext == SaveTenantConfigCall

ConfigSpec == ConfigInit /\ [][ConfigNext]_vars

\* ------------------------------------------------------------ the EnvProxy

\* The ids of the records loaded.
RecordIds == {"rec1", "rec2"}

\* What client.get_env(record_id) hands to load: the variables of the
\* record, or the exception it raised (client.py:129-163).
GetEnvOutcomes ==
    {[raised |-> "none", vars |-> [k \in Keys |-> "v1"]],
     [raised |-> "none", vars |-> [k \in Keys |-> IF k = "DATABASE_URL" THEN "v2"
                                                  ELSE Absent]],
     [raised |-> "none", vars |-> EmptyCache],
     [raised |-> "AuthenticationError", vars |-> EmptyCache]}

\* name.startswith("_") (env.py:109)
StartsWithUnderscore(name) == name \in {"_TOKEN"}

\* The names Python finds on the class without calling __getattr__: the
\* methods of EnvProxy (env.py:37-105).
ClassAttributes == {"get"}

\* env.py:53-67 with 37-41: _ensure_client creates the client from the
\* environment or raises IKVClientError; the client is kept also when
\* get_env raises; _cache, _record_id and _loaded are set when it returns.
load(p, record_id, res) ==
    IF p.client = Absent /\ ~environ.configured
    THEN [p |-> p, raised |-> "IKVClientError"]
    ELSE LET q == [p EXCEPT !.client = "IKVClient"]
         IN  IF res.raised # "none" THEN [p |-> q, raised |-> res.raised]
             ELSE [p |-> [q EXCEPT !.cache = res.vars, !.record_id = record_id,
                                   !.loaded = TRUE],
                   raised |-> "none"]

\* env.py:43-51
ensure_loaded(p, res) ==
    IF p.loaded \/ environ.IKV_RECORD = Absent THEN [p |-> p, raised |-> "none"]
    ELSE load(p, environ.IKV_RECORD, res)

\* clear leaving the record id in place.
clear_KeepsRecordId(p) == [p EXCEPT !.cache = EmptyCache, !.loaded = FALSE]

\* env.py:101-105: _cache.clear(), _loaded = False, _record_id = None.
clear(p) == [p EXCEPT !.cache = EmptyCache, !.loaded = FALSE, !.record_id = Absent]

\* getattr answering None for a variable that is not cached.
getattr_ReturnsNone(p, name, res) ==
    LET l == ensure_loaded(p, res)
    IN  [p |-> l.p, raised |-> l.raised, named |-> Absent,
         value |-> IF l.raised = "none" THEN l.p.cache[name] ELSE Absent]

\* Attribute access proxy.<name>: a method of the class is found without
\* __getattr__; otherwise env.py:107-120.
getattr(p, name, res) ==
    IF name \in ClassAttributes
    THEN [p |-> p, raised |-> "none", named |-> Absent, value |-> "bound method"]
    ELSE IF StartsWithUnderscore(name)
    THEN [p |-> p, raised |-> "AttributeError", named |-> name, value |-> Absent]
    ELSE LET l == ensure_loaded(p, res)
         IN  IF l.raised # "none"
             THEN [p |-> l.p, raised |-> l.raised, named |-> Absent, value |-> Absent]
             ELSE IF l.p.cache[name] = Absent
             THEN [p |-> l.p, raised |-> "AttributeError", named |-> name,
                   value |-> Absent]
             ELSE [p |-> l.p, raised |-> "none", named |-> Absent,
                   value |-> l.p.cache[name]]

\* A fresh proxy in a process whose environment may name a record and may
\* hold the settings the client needs.
EnvInit ==
    /\ LoginQuiet
    /\ FsQuiet
    /\ ClockQuiet
    /\ ConfigQuiet
    /\ proxy = FreshProxy
    /\ environ \in [IKV_RECORD : {Absent, "rec1"}, configured : BOOLEAN]
    /\ lookup = NoLookup

\* proxy.load(record_id)
LoadCall ==
    /\ \E record_id \in RecordIds, res \in GetEnvOutcomes :
        LET r == load(proxy, record_id, res)
        IN  /\ proxy' = r.p
            /\ lookup' = [NoLookup EXCEPT !.op = "load", !.key = record_id,
                                          !.before = proxy, !.raised = r.raised]
    /\ UNCHANGED <<loginVars, fsVars, clockVars, cfgVars, environ>>

\* proxy.clear()
ClearCall ==
    /\ proxy' = clear(proxy)
    /\ lookup' = [NoLookup EXCEPT !.op = "clear", !.before = proxy]
    /\ UNCHANGED <<loginVars, fsVars, clockVars, cfgVars, environ>>

\* proxy.<name>
GetAttrCall ==
    /\ \E name \in Keys, res \in GetEnvOutcomes :
        LET r == getattr(proxy, name, res)
        IN  /\ proxy' = r.p
            /\ lookup' = [NoLookup EXCEPT !.op = "getattr", !.key = name,
                                          !.before = proxy, !.raised = r.raised,
                                          !.named = r.named, !.value = r.value]
    /\ UNCHANGED <<loginVars, fsVars, clockVars, cfgVars, environ>>

\* env.py:69-72: proxy.get(key, default)
GetCall ==
    /\ \E key \in Keys, default \in {Absent, "fallback"}, res \in GetEnvOutcomes :
        LET l == ensure_loaded(proxy, res)
        IN  /\ proxy' = l.p
            /\ lookup' = [NoLookup EXCEPT
                             !.op = "get", !.key = key, !.default = default,
                             !.before = proxy, !.raised = l.raised,
                             !.value = IF l.raised # "none" THEN Absent
                                       ELSE IF l.p.cache[key] # Absent
                                       THEN l.p.cache[key] ELSE default]
    /\ UNCHANGED <<loginVars, fsVars, clockVars, cfgVars, environ>>

\* env.py:74-77: proxy.has(key)
HasCall ==
    /\ \E key \in Keys, res \in GetEnvOutcomes :
        LET l == ensure_loaded(proxy, res)
        IN  /\ proxy' = l.p
            /\ lookup' = [NoLookup EXCEPT
                             !.op = "has", !.key = key, !.before = proxy,
                             !.raised = l.raised,
                             !.found = l.raised = "none" /\ l.p.cache[key] # Absent]
    /\ UNCHANGED <<loginVars, fsVars, clockVars, cfgVars, environ>>

EnvNext == LoadCall \/ ClearCall \/ GetAttrCall \/ GetCall \/ HasCall

EnvSpec == EnvInit /\ [][EnvNext]_vars

\* ------------------------------------------------------------------ claims

Finished == pc \in {"Failed", "Authenticated"}

StoreUnchanged == tokens = tokens0 /\ config = config0

\* C1: a GET callback that carries a code but whose echoed state differs from
\* the CSRF state generated for this flow (or carries no state) is an
\* authentication failure: its code is never posted to the token endpoint, the
\* flow does not end Authenticated and no token is persisted.
C1_StateMismatchIsFailure ==
    (req.method = "GET" /\ Branch(req) = "code" /\ req.state # state)
        => /\ exchangedCode = Absent
           /\ pc # "Authenticated"
           /\ tokens = tokens0

\* C2: the token store and the tenant configuration are written only after an
\* authorization code was received and the exchange of that code succeeded;
\* once an error redirect is recorded the flow never reaches the exchange, and
\* the flow that raises the error-redirect failure or the timed-out failure
\* leaves token store and tenant configuration as they were; the flow that
\* ends Authenticated has saved the token and the tenant's URL.
C2_SaveOnlyAfterExchange ==
    /\ ~StoreUnchanged
          => /\ auth_result.code # Absent
             /\ exchangedCode = auth_result.code
             /\ token_data.kind = "http" /\ token_data.status = "200"
             /\ token_data.access_token # Absent
    /\ auth_result.error # Absent
          => /\ StoreUnchanged
             /\ pc \notin {"Exchanging", "BuildToken", "SaveToken", "SaveConfig",
                           "Authenticated"}
    /\ (pc = "Failed" /\ exc = "AuthError"
          /\ (errorMsg = TimedOutMsg \/ Head(errorMsg) = "Authentication failed: "))
          => StoreUnchanged
    /\ pc = "Authenticated"
          => /\ tokens[tenant] = token /\ token.access_token # Absent
             /\ config[tenant] = vault_url

C2_Witness ==
    /\ pc = "Authenticated"
    /\ tokens # tokens0
    /\ config # config0
    /\ waitResult = "set"

\* C3: whenever _browser_login has returned or raised, the listening port no
\* longer accepts connections.
C3_PortClosedOnExit == Finished => ~portListening

\* C4: after _browser_login has raised the timed-out failure, the thread that
\* runs server.handle_request has terminated or is able to terminate without a
\* further inbound connection.
C4_NoThreadLeakOnTimeout ==
    (pc = "Failed" /\ waitResult = "timeout" /\ errorMsg = TimedOutMsg)
        => (thr = "terminated" \/ ENABLED ThreadNext)

\* C5: the listener reads at most one request per login attempt and accepts no
\* connection after it, whatever number of connections is made to the port;
\* the completion signal is set at most once and auth_result never holds both
\* a code and an error.
C5_SingleShot ==
    /\ served <= 1
    /\ setCount <= 1
    /\ served = 1 => ~ENABLED Accept
    /\ ~(auth_result.code # Absent /\ auth_result.error # Absent)

C5_Witness ==
    /\ connsSent = MaxConn
    /\ backlog = MaxConn - 1
    /\ served = 1
    /\ setCount = 1
    /\ thr = "terminated"

\* C6: the completion signal is set only after status, headers and page of the
\* response have been written, so a foreground wait that returned because of
\* the signal (and the close of the server after it) follows the write.
C6_ResponseBeforeSignal ==
    /\ callback_received => (response.status # Absent /\ response.body # Absent)
    /\ waitResult = "set" => (response.status # Absent /\ response.body # Absent)

C6_Witness ==
    /\ waitResult = "set"
    /\ sockClosed
    /\ response = [status |-> "200", body |-> "Login Successful"]

\* C7: once the listener's one request has been served, the foreground wait
\* can return at once: the caller is not left waiting for the timeout.
C7_WaitEndsWhenServed ==
    (pc = "AwaitingCallback" /\ served = 1 /\ thr = "terminated")
        => ENABLED WaitSignalled

C9_OnlyGetCallbackAccepted ==
    /\ response.status = "200"
          => (req.method = "GET" /\ req.path = "/callback" /\ Branch(req) = "code")
    /\ (response.status # Absent
          /\ ~(req.method = "GET" /\ req.path = "/callback" /\ Branch(req) = "code"))
          => response.status = "400"
    /\ auth_result.code # Absent
          => (req.method = "GET" /\ req.path = "/callback")

\* C10: the failure raised after an unrecognized redirect (a GET with neither
\* code nor error) differs from the failure raised when no request arrived
\* before the timeout, which is TimedOutMsg.
C10_UnrecognizedDistinguishable ==
    (pc = "Failed" /\ waitResult = "set" /\ req.method = "GET"
        /\ Branch(req) = "unrecognized")
        => errorMsg # TimedOutMsg

\* C11: a service-account login answered 401 fails with the authentication
\* error, and one answered 403 fails with a TierError whose required_tier and
\* current_tier are the tiers the response body declares; the two failures
\* differ in type and neither changes the token store or the configuration.
C11_TypedServiceAccountErrors ==
    /\ (flow = "service_account" /\ pc = "Failed" /\ vault_response.status = "401")
          => (exc = "AuthError" /\ StoreUnchanged)
    /\ (flow = "service_account" /\ pc = "Failed" /\ vault_response.status = "403")
          => /\ exc = "TierError"
             /\ RaisedTiers.required_tier = vault_response.required_tier
             /\ RaisedTiers.current_tier = vault_response.current_tier
             /\ StoreUnchanged

\* C12: in both flows a POST that fails in transport, by a refused connection
\* or by a connect or read timeout, makes login raise the AuthError that says
\* "Cannot connect to" the vault URL, and nothing is persisted.
C12_TransportFailureCannotConnect ==
    (pc = "Failed" /\ vault_response.kind \in {"connect_error", "transport_timeout"})
        => /\ exc = "AuthError"
           /\ errorMsg = CannotConnectMsg(vault_url)
           /\ StoreUnchanged

\* C13: when the vault answers the exchange with a non-success status, whatever
\* the status and the content type, the browser flow raises AuthError with the
\* body's error_description when the body has one and with the generic
\* "Token exchange failed" message otherwise.
C13_ExchangeFailureMessage ==
    (flow = "browser" /\ pc = "Failed" /\ vault_response.kind = "http"
        /\ vault_response.status # "200")
        => /\ exc = "AuthError"
           /\ errorMsg = IF vault_response.error_description # Absent
                         THEN <<vault_response.error_description>>
                         ELSE ExchangeFailedMsg(vault_response.status)

\* C14: a login of either flow that returns has stored, before returning, the
\* returned token under the tenant's key and the vault URL it used under the
\* tenant's name: the store shows that token for the tenant, with the access
\* token of the vault's answer, the expiry derived from it and the tenant's
\* name, and the token is stored before the URL is.
C14_PersistedBeforeReturn ==
    /\ pc = "Authenticated"
          => /\ tokens[tenant] = token
             /\ token.access_token = vault_response.access_token
             /\ token.access_token # Absent
             /\ token.tenant = tenant
             /\ IF flow = "browser"
                THEN \E now \in Times : token.expires_at = ExpiresAt(vault_response, now)
                ELSE token.expires_at = vault_response.expires_at
             /\ config[tenant] = vault_url
    /\ pc = "SaveConfig" => tokens[tenant] = token

C14_Witness ==
    /\ pc = "Authenticated"
    /\ flow = "service_account"
    /\ tokens0[tenant] = OldToken(tenant)
    /\ config0[tenant] # vault_url
    /\ tokens[tenant] = [access_token |-> "tok123", expires_at |-> 5000,
                         tenant |-> tenant]

\* C15: the token store is a last-write-wins register per tenant: whenever no
\* call is in progress, get_token(t) returns the token of the last save_token
\* of t that returned, equal in access_token, expires_at and tenant, as long
\* as no later save_token or delete_token of t has begun.
C15_LastWriteWins ==
    \A t \in Tenants :
        (op.name = "idle" /\ saved[t] # NoToken)
            => get_token(t, FALSE).value = saved[t]

\* C16: the write of the token file is atomic for other processes: at no
\* moment of a save_token or delete_token, and after no failure or crash
\* inside one, does the file hold a partly written, unparseable content.
C16_AtomicFileWrite == tokens_file.st # "partial"

\* C17: in the file fallback, whenever the token file holds token data its
\* mode is owner-only, and the directory, when the store creates it, has
\* owner-only mode.
C17_PermissionsBeforeContent ==
    /\ (tokens_file.st = "written" /\ tokens_file.data # EmptyDict)
          => file_mode = "0600"
    /\ dir_mode \in {"none", "0700"}

\* C18: get_token returns a TokenInfo or nothing and never raises: a failing
\* keyring read, an unreadable or unparseable file and a stored entry that
\* lacks a member all yield "no token"; otherwise the stored entry is
\* returned.
C18_GetNeverRaises ==
    got.tenant # Absent
        => /\ got.raised = "none"
           /\ got.value = IF got.fault \/ got.entry = NoToken
                               \/ from_json(got.entry).raised # "none"
                           THEN NoToken
                           ELSE from_json(got.entry).value

C18_Witness ==
    /\ keyring_state = "working"
    /\ got.tenant = "acme"
    /\ got.fault
    /\ got.entry = OldToken("acme")
    /\ got.raised = "none"
    /\ got.value = NoToken

\* C19: delete_token(t) never raises, and once it has returned get_token(t)
\* finds no token.
C19_DeleteRemoves ==
    (last.name = "delete_token" /\ op.name = "idle")
        => /\ ~last.raised
           /\ get_token(last.tenant, FALSE).value = NoToken

\* C20: logout of all tenants is best-effort: when it returns, delete_token
\* has been attempted for every configured tenant, also after a deletion that
\* failed in the storage, and every tenant whose own deletion did not fail has
\* no token left.
C20_LogoutBestEffort ==
    (last.name = "logout" /\ op.name = "idle" /\ ~lo.active)
        => /\ lo.attempted = Configured
           /\ \A t \in lo.attempted \ lo.failed :
                  get_token(t, FALSE).value = NoToken

C20_Witness ==
    /\ last.name = "logout"
    /\ lo.order = <<"acme", "beta">>
    /\ lo.before = Tenants
    /\ lo.attempted = Tenants
    /\ lo.failed = {"acme"}
    /\ get_token("acme", FALSE).value # NoToken
    /\ get_token("beta", FALSE).value = NoToken

\* C21: a token is expired exactly when the clock has passed expires_at - 300:
\* at that very second it is not expired, one second later it is.
C21_ExpiredPastBuffer ==
    probe # NoProbe
        => /\ probe.is_expired <=> clock > 2 * (probe.expires_at - 300)
           /\ clock = 2 * (probe.expires_at - 300) => ~probe.is_expired
           /\ clock = 2 * (probe.expires_at - 300 + 1) => probe.is_expired

C21_Witness ==
    /\ probe # NoProbe
    /\ clock = 2 * (probe.expires_at - 300)
    /\ ~probe.is_expired

\* C22: expires_in is expires_at less the clock's whole seconds where that is
\* positive and 0 otherwise: it is never negative, also for a token whose
\* expires_at lies in the past.
C22_ExpiresInNotNegative ==
    probe # NoProbe
        => /\ probe.expires_in >= 0
           /\ probe.expires_at >= clock \div 2
                  => probe.expires_in = probe.expires_at - (clock \div 2)
           /\ probe.expires_at < clock \div 2 => probe.expires_in = 0

C22_Witness ==
    /\ probe # NoProbe
    /\ probe.expires_at < clock \div 2
    /\ probe.expires_in = 0

\* C23: the token built from a successful code exchange expires at the
\* vault's absolute expires_at when the answer has one, otherwise at the
\* moment of the exchange plus the answer's expires_in, otherwise at that
\* moment plus 14400 seconds.
C23_ExpiresAtPrecedence ==
    (flow = "browser" /\ token # NoToken)
        => \E now \in Times :
              token.expires_at =
                  CASE token_data.expires_at # NoInt -> token_data.expires_at
                    [] token_data.expires_at = NoInt /\ token_data.expires_in # NoInt
                           -> now + token_data.expires_in
                    [] OTHER -> now + 14400

C23_Witness ==
    /\ pc = "Authenticated"
    /\ token_data.expires_at # NoInt
    /\ token_data.expires_in # NoInt
    /\ token.expires_at = token_data.expires_at
    /\ tokens[tenant] = token

\* C24: in every state the logins reach, the tenant field of each stored
\* token is the key the token is stored under.
C24_TenantFieldIsKey ==
    \A t \in Tenants : tokens[t] # NoToken => tokens[t].tenant = t

C24_Witness ==
    /\ flow = "service_account"
    /\ pc = "Authenticated"
    /\ tokens0[tenant] = NoToken
    /\ tokens[tenant] # NoToken
    /\ tokens[tenant].tenant = tenant

\* C25: after save_tenant_config(t, url) has returned, the URL of t is url,
\* every other tenant's entry is as it was before the call, and the same call
\* made again leaves the configuration as the first one left it.
C25_ConfigLastWriteWins ==
    (cfg_call.tenant # Absent /\ ~cfg_call.raised)
        => /\ config_file.tenants[cfg_call.tenant].url = cfg_call.url
           /\ \A t \in Tenants \ {cfg_call.tenant} :
                  config_file.tenants[t] = cfg_call.before.tenants[t]
           /\ cfg_call.repeated => config_file = cfg_call.before

C25_Witness ==
    /\ ~cfg_call.raised
    /\ cfg_call.repeated
    /\ cfg_call.tenant = "beta"
    /\ cfg_call.url = "https://vault.example.com"
    /\ config_file.tenants["beta"].url = "https://vault.example.com"
    /\ config_file.tenants["acme"].url = "https://old.example.com"

\* C26 as stated: after clear() the proxy is in every respect the proxy a
\* constructor returns.
C26_ClearRestoresFresh == lookup.op = "clear" => proxy = FreshProxy

\* C26, amended: after clear() the proxy is not loaded, its cache is empty
\* and it has no record id; the client an earlier load created stays with it
\* and serves the next load.
C26_ClearResetsCache ==
    lookup.op = "clear"
        => /\ ~proxy.loaded
           /\ \A k \in Keys : proxy.cache[k] = Absent
           /\ proxy.record_id = Absent
           /\ proxy.client = lookup.before.client

C26_Witness ==
    /\ lookup.op = "clear"
    /\ lookup.before.loaded
    /\ lookup.before.cache["DATABASE_URL"] = "v1"
    /\ lookup.before.record_id = "rec1"
    /\ proxy.client = "IKVClient"
    /\ ~proxy.loaded

\* C27 as stated: on a loaded proxy, for every key, attribute access returns
\* the cached value of a cached key and raises AttributeError naming the key
\* otherwise, has(key) tells whether the key is cached, and get(key, default)
\* returns the cached value or the default.
C27_LookupsAgreeWithCache ==
    lookup.before.loaded
        => LET cached == lookup.before.cache[lookup.key]
           IN  /\ lookup.op = "getattr"
                      => IF cached # Absent
                         THEN lookup.raised = "none" /\ lookup.value = cached
                         ELSE /\ lookup.raised = "AttributeError"
                              /\ lookup.named = lookup.key
               /\ lookup.op = "has" => (lookup.found <=> cached # Absent)
               /\ lookup.op = "get"
                      => lookup.value = IF cached # Absent THEN cached
                                        ELSE lookup.default

\* C27, amended: on a loaded proxy has and get agree with the cache for every
\* key, and attribute access does for every key that neither begins with an
\* underscore nor is the name of a method of EnvProxy; a name beginning with
\* an underscore raises AttributeError also when it is cached, and the name
\* of a method yields the method.
C27_LookupsAgreeForPlainKeys ==
    lookup.before.loaded
        => LET cached == lookup.before.cache[lookup.key]
           IN  /\ lookup.op = "getattr"
                      => CASE lookup.key = "get"
                                -> lookup.raised = "none" /\ lookup.value = "bound method"
                           [] lookup.key = "_TOKEN"
                                -> /\ lookup.raised = "AttributeError"
                                   /\ lookup.named = lookup.key
                           [] OTHER
                                -> IF cached # Absent
                                   THEN lookup.raised = "none" /\ lookup.value = cached
                                   ELSE /\ lookup.raised = "AttributeError"
                                        /\ lookup.named = lookup.key
               /\ lookup.op = "has" => (lookup.found <=> cached # Absent)
               /\ lookup.op = "get"
                      => lookup.value = IF cached # Absent THEN cached
                                        ELSE lookup.default
               /\ lookup.op \in {"getattr", "has", "get"} => proxy = lookup.before

C27_Witness ==
    /\ lookup.before.loaded
    /\ lookup.op = "getattr"
    /\ lookup.key = "DATABASE_URL"
    /\ lookup.before.cache["DATABASE_URL"] = "v2"
    /\ lookup.before.cache["_TOKEN"] = Absent
    /\ lookup.value = "v2"

\* C28: login uses the explicit URL when it is not empty, else the tenant's
\* configured URL, else the built-in default, without trailing slashes; it
\* takes the service-account flow exactly when api_key and master_key are
\* both non-empty; and the URL stored on success is the resolved one.
C28_ResolvedUrlAndFlow ==
    pc # "Login"
        => /\ LET chosen == IF url_arg \notin {Absent, ""} THEN url_arg
                            ELSE IF config0[tenant] # Absent THEN config0[tenant]
                            ELSE "https://localhost:5001"
              IN  /\ vault_url \in {"https://vault.example.com",
                                    "https://old.example.com",
                                    "https://localhost:5001"}
                  /\ chosen \in {"https://vault.example.com",
                                 "https://vault.example.com/",
                                 "https://vault.example.com//"}
                         <=> vault_url = "https://vault.example.com"
                  /\ chosen \in {"https://old.example.com", "https://old.example.com/"}
                         <=> vault_url = "https://old.example.com"
           /\ flow = "service_account"
                  <=> (api_key = "key" /\ master_key = "key")
           /\ flow # "service_account" => flow = "browser"
           /\ pc = "Authenticated" => config[tenant] = vault_url

C28_Witness ==
    /\ pc = "Authenticated"
    /\ url_arg = ""
    /\ config0[tenant] = "https://old.example.com/"
    /\ vault_url = "https://old.example.com"
    /\ config[tenant] = "https://old.example.com"
    /\ flow = "service_account"

\* C29: a client without service-account keys sends a request only with the
\* token get_token returns for its tenant and only while that token is not
\* expired; when there is no such token, or it is expired, the call raises
\* AuthenticationError and no request is sent.
C29_NoRequestWithoutValidToken ==
    ~(api_key = "key" /\ master_key = "key")
        => LET tok == get_token(tenant, api_call.fault).value
               usable == tok # NoToken /\ clock <= 2 * (tok.expires_at - 300)
           IN  /\ api_call.sent # NoHeaders
                      => /\ usable
                         /\ api_call.sent = [kind |-> "bearer",
                                             access_token |-> tok.access_token]
               /\ (api_call.pc # "idle" /\ ~usable)
                      => /\ api_call.pc = "raised"
                         /\ api_call.raised = "AuthenticationError"
                         /\ api_call.sent = NoHeaders
                         /\ api_call.status = Absent

C29_Witness ==
    /\ api_key = Absent
    /\ api_call.pc = "raised"
    /\ api_call.raised = "AuthenticationError"
    /\ ~api_call.fault
    /\ get_token(tenant, FALSE).value # NoToken
    /\ clock = 2 * (get_token(tenant, FALSE).value.expires_at - 300) + 1
    /\ api_call.sent = NoHeaders

\* C30: whatever the vault answers to the POST of either flow (any status, a
\* transport failure or timeout, a body without access_token or expires_at), a
\* login that fails raises AuthError, the type the command line handles.
C30_FailuresAreAuthError ==
    (pc = "Failed" /\ vault_response # NoResponse /\ exc # "StorageError")
        => exc = "AuthError"

\* C31: a save_token or delete_token of one tenant that ran by itself, from a
\* store it could read, has left the stored entry of every other tenant as it
\* was, in the keyring and in the file fallback.
C31_OtherTenantsUnchanged ==
    (op.name = "idle" /\ last.name \in {"save_token", "delete_token"} /\ last.readable)
        => \A t \in Tenants \ {last.tenant} : StoredEntry(t) = last.before[t]

\* C32: when two processes save tokens for different tenants at the same time
\* in the file fallback, then in every interleaving of their steps the store
\* holds both tokens once both have returned.
C32_NoLostUpdate ==
    (\A p \in Procs : writers[p].pc = "done")
        => \A p \in Procs : StoredEntry(writers[p].tenant) = to_json(writers[p].tok)

\* C33: a login that has ended, by returning or by raising at any point of
\* its persistence, leaves every tenant that holds a stored token with an
\* entry in the tenant configuration, provided that was so when it began; so
\* the tenants logout() walks through include every tenant with a token.
C33_TokenImpliesConfigEntry ==
    (/\ pc \in {"Authenticated", "Failed"}
     /\ \A t \in Tenants : tokens0[t] # NoToken => config0[t] # Absent)
        => \A t \in Tenants : tokens[t] # NoToken => config[t] # Absent

====
